---- MODULE Spec2Model ----
(***************************************************************************)
(* Book Management API: the book routes (app/api/endpoints/books.py), the  *)
(* application wiring (app/main.py) and the storage they act on.           *)
(*                                                                         *)
(* The relational store is three tables; the storage sink is a directory.  *)
(* Every request runs in a session of its own (Depends(get_db)).  The two  *)
(* handlers that validate references and then write, create_book and       *)
(* update_book, are modelled in two steps, the queries and the commit, so  *)
(* that other requests can run between them.                               *)
(***************************************************************************)
EXTENDS Integers, Sequences, FiniteSets, TLC

VARIABLES
    authors,      \* ids of the rows of table authors
    categories,   \* ids of the rows of table categories
    books,        \* table books: id -> row
    files,        \* the storage sink: file path -> bytes written
    sess          \* per request slot: the handler's position and locals

vars == <<authors, categories, books, files, sess>>

-----------------------------------------------------------------------------
(* Bounds of the model *)

MaxAuthorId == 2
MaxCategoryId == 2
MaxBookId == 2
MaxFiles == 2

AuthorIds == 1..MaxAuthorId
CategoryIds == 1..MaxCategoryId
BookIds == 1..MaxBookId

Sessions == {"s1", "s2"}

-----------------------------------------------------------------------------
(* Optional values: Python's None is the empty set, a value v is {v} *)

None == {}
Some(v) == {v}
Val(x) == CHOOSE v \in x : TRUE
Opt(S) == {None} \cup {Some(v) : v \in S}

-----------------------------------------------------------------------------
(* HTTP status codes the handlers answer with *)

HTTP_200_OK == 200
HTTP_201_CREATED == 201
HTTP_204_NO_CONTENT == 204
HTTP_400_BAD_REQUEST == 400
HTTP_404_NOT_FOUND == 404
\* an exception that is no HTTPException (the ORM's, raised by db.commit())
\* reaches the client as a server error
HTTP_500_INTERNAL_SERVER_ERROR == 500

-----------------------------------------------------------------------------
(* Request payloads *)

Titles == {"Dune", "Emma"}
Descriptions == {"novel"}
Years == {1965}

\* schemas.book.BookCreate: title, author_id and category_id are required
BookCreate ==
    [title : Titles, description : Opt(Descriptions), published_year : Opt(Years),
     author_id : AuthorIds, category_id : CategoryIds]

\* schemas.book.BookUpdate: every field is optional and defaults to None
BookUpdate ==
    [title : Opt(Titles), description : Opt(Descriptions),
     published_year : Opt(Years), author_id : Opt(AuthorIds),
     category_id : Opt(CategoryIds)]

\* the columns update_book can assign
Fields == {"title", "description", "published_year", "author_id", "category_id"}

-----------------------------------------------------------------------------
(* Uploaded files.  A filename is the sequence of its characters; the bytes *)
(* of an upload are known by a tag and their length.                       *)

COVERS_DIR == "app/static/covers"
COVERS_URL == "/static/covers/"

max_size == 2 * 1024 * 1024

Upper == <<"A", "B", "C", "D", "E", "F", "G", "H", "I", "J", "K", "L", "M",
           "N", "O", "P", "Q", "R", "S", "T", "U", "V", "W", "X", "Y", "Z">>
Lower == <<"a", "b", "c", "d", "e", "f", "g", "h", "i", "j", "k", "l", "m",
           "n", "o", "p", "q", "r", "s", "t", "u", "v", "w", "x", "y", "z">>

\* str.lower() on one character
LowerChar(c) ==
    IF \E i \in 1..Len(Upper) : Upper[i] = c
    THEN Lower[CHOOSE i \in 1..Len(Upper) : Upper[i] = c]
    ELSE c

\* str.lower()
ToLower(str) == [i \in 1..Len(str) |-> LowerChar(str[i])]

\* str.rfind("."): the last index of a dot, 0 when there is none
\* (Python's index + 1, so Python's -1 is 0 here)
RFindDot(name) ==
    IF \E i \in 1..Len(name) : name[i] = "."
    THEN CHOOSE i \in 1..Len(name) :
            name[i] = "." /\ \A j \in (i + 1)..Len(name) : name[j] # "."
    ELSE 0

\* pathlib's PurePath.suffix of a name without directory separators:
\* the part from the last dot on, unless that dot is the first or the last
\* character of the name
Suffix(name) ==
    LET i == RFindDot(name)
    IN  IF 1 < i /\ i < Len(name) THEN SubSeq(name, i, Len(name)) ELSE <<>>

AllowedContentTypes == {"image/jpeg", "image/png"}
AllowedExtensions == {<<".", "j", "p", "e", "g">>, <<".", "p", "n", "g">>,
                      <<".", "j", "p", "g">>}

ContentTypes == {"image/jpeg", "image/png", "image/gif"}
Filenames ==
    {<<"a", ".", "p", "n", "g">>, <<"a", ".", "J", "P", "G">>,
     <<"a", ".", "b", ".", "J", "p", "e", "g">>, <<"a", ".", "g", "i", "f">>,
     <<".", "p", "n", "g">>, <<"a", ".", "p", "n", "g", ".">>}
Contents ==
    {[tag |-> "x", len |-> 1024], [tag |-> "y", len |-> max_size],
     [tag |-> "z", len |-> max_size + 1]}
UploadFile == [content_type : ContentTypes, filename : Filenames, contents : Contents]

\* uuid.uuid4().hex: any token
HexTokens == {"0a", "1b"}

\* f"book_{book_id}_{uuid.uuid4().hex}{ext}"
Filename(book_id, hex, ext) ==
    [prefix |-> "book_", book_id |-> book_id, hex |-> hex, ext |-> ext]

\* COVERS_DIR / filename
FilePath(filename) == [dir |-> COVERS_DIR, filename |-> filename]

\* f"/static/covers/{filename}"
CoverUrl(filename) == [dir |-> COVERS_URL, filename |-> filename]

-----------------------------------------------------------------------------
(* The store and the sessions *)

\* models.Book: the spec's data model has the references checked by the
\* handlers only, not by a constraint of the store
ForeignKeysEnforced == FALSE

\* A request slot is idle, or holds a handler between its lookups and its
\* commit (pc = "commit": the payload, and for update_book the columns the
\* session's Book was changed in), or holds the answer of a finished
\* request until the session is closed (pc = "done": the payload, the
\* status, and of the body what the properties read).
Idle == [pc |-> "idle"]
Done(op, req, status, body) ==
    [pc |-> "done", op |-> op, req |-> req, status |-> status, body |-> body]

\* the table with row `row` under `id` (INSERT, or UPDATE of that row)
Put(table, id, row) ==
    [k \in DOMAIN table \cup {id} |-> IF k = id THEN row ELSE table[k]]

\* DELETE FROM table WHERE id = :id
RemoveAll(table, id) == <<>>
Remove(table, id) == [k \in DOMAIN table \ {id} |-> table[k]]

Init ==
    /\ authors = {}
    /\ categories = {}
    /\ books = <<>>
    /\ files = <<>>
    /\ sess = [s \in Sessions |-> Idle]

\* get_db: the session is closed when the request is over, whatever its
\* outcome; what was not committed is dropped with it
Close(s) ==
    /\ sess[s].pc = "done"
    /\ sess' = [sess EXCEPT ![s] = Idle]
    /\ UNCHANGED <<authors, categories, books, files>>

-----------------------------------------------------------------------------
(* Author and category routes: create and delete by primary key *)

CreateAuthor(s) ==
    /\ sess[s] = Idle
    /\ \E id \in AuthorIds \ authors :
          /\ authors' = authors \cup {id}
          /\ sess' = [sess EXCEPT ![s] =
                          Done("create_author", [id |-> id], HTTP_201_CREATED, None)]
    /\ UNCHANGED <<categories, books, files>>

DeleteAuthor(s, author_id) ==
    /\ sess[s] = Idle
    /\ LET req == [id |-> author_id]
       IN  IF author_id \notin authors
           THEN /\ sess' = [sess EXCEPT ![s] =
                                Done("delete_author", req, HTTP_404_NOT_FOUND, None)]
                /\ UNCHANGED authors
           ELSE IF ForeignKeysEnforced
                   /\ \E b \in DOMAIN books : books[b].author_id = author_id
           THEN /\ sess' = [sess EXCEPT ![s] =
                                Done("delete_author", req,
                                     HTTP_500_INTERNAL_SERVER_ERROR, None)]
                /\ UNCHANGED authors
           ELSE /\ authors' = authors \ {author_id}
                /\ sess' = [sess EXCEPT ![s] =
                                Done("delete_author", req, HTTP_204_NO_CONTENT, None)]
    /\ UNCHANGED <<categories, books, files>>

CreateCategory(s) ==
    /\ sess[s] = Idle
    /\ \E id \in CategoryIds \ categories :
          /\ categories' = categories \cup {id}
          /\ sess' = [sess EXCEPT ![s] =
                          Done("create_category", [id |-> id], HTTP_201_CREATED, None)]
    /\ UNCHANGED <<authors, books, files>>

DeleteCategory(s, category_id) ==
    /\ sess[s] = Idle
    /\ LET req == [id |-> category_id]
       IN  IF category_id \notin categories
           THEN /\ sess' = [sess EXCEPT ![s] =
                                Done("delete_category", req, HTTP_404_NOT_FOUND, None)]
                /\ UNCHANGED categories
           ELSE IF ForeignKeysEnforced
                   /\ \E b \in DOMAIN books : books[b].category_id = category_id
           THEN /\ sess' = [sess EXCEPT ![s] =
                                Done("delete_category", req,
                                     HTTP_500_INTERNAL_SERVER_ERROR, None)]
                /\ UNCHANGED categories
           ELSE /\ categories' = categories \ {category_id}
                /\ sess' = [sess EXCEPT ![s] =
                                Done("delete_category", req, HTTP_204_NO_CONTENT, None)]
    /\ UNCHANGED <<authors, books, files>>

-----------------------------------------------------------------------------
(* Book routes *)

\* get_book
GetBook(s, book_id) ==
    /\ sess[s] = Idle
    /\ sess' = [sess EXCEPT ![s] =
                    Done("get_book", [book_id |-> book_id],
                         IF book_id \in DOMAIN books
                         THEN HTTP_200_OK ELSE HTTP_404_NOT_FOUND,
                         None)]
    /\ UNCHANGED <<authors, categories, books, files>>

\* create_book, lines 80-94: the detail of the HTTPException the two
\* lookups raise, if any
MissingAuthorOnly(book_in) ==
    IF book_in.author_id \notin authors THEN "Author does not exist" ELSE "none"
MissingReference(book_in) ==
    IF book_in.author_id \notin authors THEN "Author does not exist"
    ELSE IF book_in.category_id \notin categories THEN "Category does not exist"
    ELSE "none"

\* models.Book(...) as create_book builds it: cover_image is not given
NewBook(book_in) ==
    [title |-> book_in.title,
     description |-> book_in.description,
     published_year |-> book_in.published_year,
     author_id |-> book_in.author_id,
     category_id |-> book_in.category_id,
     cover_image |-> None]

\* create_book up to the commit: the author and category lookups
CreateBookCheck(s, book_in) ==
    /\ sess[s] = Idle
    /\ sess' = [sess EXCEPT ![s] =
                    IF MissingReference(book_in) # "none"
                    THEN Done("create_book", [book_in |-> book_in],
                              HTTP_400_BAD_REQUEST, None)
                    ELSE [pc |-> "commit", op |-> "create_book",
                          req |-> [book_in |-> book_in]]]
    /\ UNCHANGED <<authors, categories, books, files>>

\* create_book: db.add(book); db.commit(); db.refresh(book).  The store
\* assigns the id: any id not in use.
CreateBookCommit(s) ==
    /\ sess[s].pc = "commit"
    /\ sess[s].op = "create_book"
    /\ LET book_in == sess[s].req.book_in
       IN  IF ForeignKeysEnforced
              /\ (book_in.author_id \notin authors
                  \/ book_in.category_id \notin categories)
           THEN /\ sess' = [sess EXCEPT ![s] =
                                Done("create_book", sess[s].req,
                                     HTTP_500_INTERNAL_SERVER_ERROR, None)]
                /\ UNCHANGED books
           ELSE \E id \in BookIds \ DOMAIN books :
                   /\ books' = Put(books, id, NewBook(book_in))
                   /\ sess' = [sess EXCEPT ![s] =
                                   Done("create_book", sess[s].req,
                                        HTTP_201_CREATED, Some([id |-> id]))]
    /\ UNCHANGED <<authors, categories, files>>

\* update_book, lines 126-131: the session's Book after the assignments of
\* title, description and published_year
AssignPlainAlways(book, book_up) ==
    [book EXCEPT !.title = IF book_up.title # None THEN Val(book_up.title) ELSE @,
                 !.description = book_up.description,
                 !.published_year = book_up.published_year]
AssignPlain(book, book_up) ==
    LET b1 == IF book_up.title # None
              THEN [book EXCEPT !.title = Val(book_up.title)] ELSE book
        b2 == IF book_up.description # None
              THEN [b1 EXCEPT !.description = book_up.description] ELSE b1
    IN  IF book_up.published_year # None
        THEN [b2 EXCEPT !.published_year = book_up.published_year] ELSE b2

\* update_book, line 134 and line 144: the reference is supplied and is not
\* the one the session's Book holds
NewAuthor(book, book_up) ==
    book_up.author_id # None /\ Val(book_up.author_id) # book.author_id

NewCategory(book, book_up) ==
    book_up.category_id # None /\ Val(book_up.category_id) # book.category_id

\* update_book, lines 141 and 151, when no lookup fails
AssignReferences(book, book_up) ==
    LET b1 == IF NewAuthor(book, book_up)
              THEN [book EXCEPT !.author_id = Val(book_up.author_id)] ELSE book
    IN  IF NewCategory(b1, book_up)
        THEN [b1 EXCEPT !.category_id = Val(book_up.category_id)] ELSE b1

\* what db.commit() writes of the session's Book: the columns whose value is
\* not the one that was loaded (the ORM's UPDATE names no other column)
DirtyAllColumns(loaded, book) == book
Dirty(loaded, book) ==
    [c \in {c \in DOMAIN loaded : book[c] # loaded[c]} |-> book[c]]

\* UPDATE books SET <dirty columns> WHERE id = :id, on the row as stored
Flush(row, dirty) ==
    [c \in DOMAIN row |-> IF c \in DOMAIN dirty THEN dirty[c] ELSE row[c]]

\* update_book, raise HTTPException(400) at line 137 or 147: nothing was
\* committed, and the session's Book (book) is dropped with the session
RaiseBadRequestCommitted(s, req, book) ==
    /\ sess' = [sess EXCEPT ![s] =
                    Done("update_book", req, HTTP_400_BAD_REQUEST, None)]
    /\ books' = Put(books, req.book_id, book)
RaiseBadRequest(s, req, book) ==
    /\ sess' = [sess EXCEPT ![s] =
                    Done("update_book", req, HTTP_400_BAD_REQUEST, None)]
    /\ UNCHANGED books

\* update_book up to the commit: the lookup of the book, the assignments
\* and the lookups of a new author and a new category
UpdateBookLoad(s, book_id, book_up) ==
    /\ sess[s] = Idle
    /\ LET req == [book_id |-> book_id, book_up |-> book_up]
       IN  IF book_id \notin DOMAIN books
           THEN /\ sess' = [sess EXCEPT ![s] =
                                Done("update_book", req, HTTP_404_NOT_FOUND, None)]
                /\ UNCHANGED books
           ELSE LET b1 == AssignPlain(books[book_id], book_up)
                    b2 == AssignReferences(b1, book_up)
                IN  IF NewAuthor(b1, book_up)
                       /\ Val(book_up.author_id) \notin authors
                    THEN RaiseBadRequest(s, req, b1)
                    ELSE IF NewCategory(b1, book_up)
                            /\ Val(book_up.category_id) \notin categories
                    THEN RaiseBadRequest(s, req,
                                         [b1 EXCEPT !.author_id = b2.author_id])
                    ELSE /\ sess' = [sess EXCEPT ![s] =
                                        [pc |-> "commit", op |-> "update_book",
                                         req |-> req,
                                         dirty |-> Dirty(books[book_id], b2)]]
                         /\ UNCHANGED books
    /\ UNCHANGED <<authors, categories, files>>

\* update_book: db.commit(); db.refresh(book).  The UPDATE of a row that is
\* gone, and the refresh of one, raise in the ORM.
UpdateBookCommit(s) ==
    /\ sess[s].pc = "commit"
    /\ sess[s].op = "update_book"
    /\ LET book_id == sess[s].req.book_id
       IN  IF book_id \notin DOMAIN books
           THEN /\ sess' = [sess EXCEPT ![s] =
                                Done("update_book", sess[s].req,
                                     HTTP_500_INTERNAL_SERVER_ERROR, None)]
                /\ UNCHANGED books
           ELSE /\ books' = [books EXCEPT ![book_id] = Flush(@, sess[s].dirty)]
                /\ sess' = [sess EXCEPT ![s] =
                                Done("update_book", sess[s].req, HTTP_200_OK, None)]
    /\ UNCHANGED <<authors, categories, files>>

\* the DELETE handler (the second def update_book)
DeleteBook(s, book_id) ==
    /\ sess[s] = Idle
    /\ IF book_id \notin DOMAIN books
       THEN /\ sess' = [sess EXCEPT ![s] =
                            Done("delete_book", [book_id |-> book_id],
                                 HTTP_404_NOT_FOUND, None)]
            /\ UNCHANGED books
       ELSE /\ books' = Remove(books, book_id)
            /\ sess' = [sess EXCEPT ![s] =
                            Done("delete_book", [book_id |-> book_id],
                                 HTTP_204_NO_CONTENT, None)]
    /\ UNCHANGED <<authors, categories, files>>

\* upload_book_cover, line 195
BadContentType(file) == file.content_type \notin AllowedContentTypes

\* upload_book_cover, line 202
ExtensionAsGiven(file) == Suffix(file.filename)
Extension(file) == ToLower(Suffix(file.filename))

\* upload_book_cover, line 203
BadExtension(file) == Extension(file) \notin AllowedExtensions

\* upload_book_cover, line 214
TooLargeInclusive(file) == file.contents.len >= max_size
TooLarge(file) == file.contents.len > max_size

\* upload_book_cover: the detail of the HTTPException it raises, if any
UploadError(file) ==
    IF BadContentType(file)
    THEN "Invalid image type. Only JPEG and PNG are allowed."
    ELSE IF BadExtension(file)
    THEN "Invalid image type. Only .jpg, .jpeg, .png are allowed."
    ELSE IF TooLarge(file) THEN "File to large. Max size is 2MB"
    ELSE "none"

\* upload_book_cover, line 221
CoverFilename(book_id, hex, file) == Filename(book_id, hex, Extension(file))

\* upload_book_cover, lines 225-232: the file is written, then the row
\* (the sink holds at most MaxFiles files)
StoreCover(book_id, filename, file) ==
    /\ FilePath(filename) \in DOMAIN files \/ Cardinality(DOMAIN files) < MaxFiles
    /\ files' = Put(files, FilePath(filename), file.contents)
    /\ books' = [books EXCEPT ![book_id].cover_image = Some(CoverUrl(filename))]

\* upload_book_cover
UploadBookCover(s, book_id, file, hex) ==
    /\ sess[s] = Idle
    /\ LET req == [book_id |-> book_id, file |-> file]
           filename == CoverFilename(book_id, hex, file)
       IN  IF book_id \notin DOMAIN books
           THEN /\ sess' = [sess EXCEPT ![s] =
                                Done("upload_book_cover", req,
                                     HTTP_404_NOT_FOUND, None)]
                /\ UNCHANGED <<books, files>>
           ELSE IF UploadError(file) # "none"
           THEN /\ sess' = [sess EXCEPT ![s] =
                                Done("upload_book_cover", req,
                                     HTTP_400_BAD_REQUEST, None)]
                /\ UNCHANGED <<books, files>>
           ELSE /\ StoreCover(book_id, filename, file)
                /\ sess' = [sess EXCEPT ![s] =
                                Done("upload_book_cover", req, HTTP_200_OK,
                                     Some([cover_image |-> CoverUrl(filename)]))]
    /\ UNCHANGED <<authors, categories>>

-----------------------------------------------------------------------------
(* The application (app/main.py) *)

\* the static mounts of the application, url prefix -> directory: main.py
\* imports StaticFiles and mounts nothing
StaticMounts == {}

\* what GET url answers for a url outside the three routers and "/"
StaticGet(url) ==
    IF \E m \in StaticMounts :
          m.url = url.dir /\ [dir |-> m.directory, filename |-> url.filename]
                                 \in DOMAIN files
    THEN LET m == CHOOSE m \in StaticMounts : m.url = url.dir
         IN  [status |-> HTTP_200_OK,
              body |-> Some(files[[dir |-> m.directory, filename |-> url.filename]])]
    ELSE [status |-> HTTP_404_NOT_FOUND, body |-> None]

\* GET of the cover_image of a stored book
GetCover(s, book_id) ==
    /\ sess[s] = Idle
    /\ book_id \in DOMAIN books
    /\ books[book_id].cover_image # None
    /\ LET url == Val(books[book_id].cover_image)
       IN  sess' = [sess EXCEPT ![s] =
                       Done("static", [url |-> url], StaticGet(url).status,
                            StaticGet(url).body)]
    /\ UNCHANGED <<authors, categories, books, files>>

-----------------------------------------------------------------------------
(* Specifications.  Each explores the requests its claims are about.       *)

\* the store as earlier requests left it: two authors, one category
Seeded ==
    /\ authors = {1, 2}
    /\ categories = {1}
    /\ books = <<>>
    /\ files = <<>>
    /\ sess = [s \in Sessions |-> Idle]

\* the same store with one book
SeededBook ==
    /\ authors = {1, 2}
    /\ categories = {1}
    /\ books = (1 :> [title |-> "Dune", description |-> None,
                      published_year |-> None, author_id |-> 1,
                      category_id |-> 1, cover_image |-> None])
    /\ files = <<>>
    /\ sess = [s \in Sessions |-> Idle]

\* payloads that differ in their references only
CreatesRef ==
    {b \in BookCreate :
        b.title = "Dune" /\ b.description = None /\ b.published_year = None}
UpdatesRef ==
    {u \in BookUpdate :
        u.title = Some("Emma") /\ u.description # None /\ u.published_year # None}

\* payloads that differ in title, description and published_year only
CreatesPatch ==
    {b \in BookCreate :
        /\ b.author_id = 1 /\ b.category_id = 1
        /\ \/ b.title = "Dune" /\ b.description = None /\ b.published_year = None
           \/ b.title = "Emma" /\ b.description # None /\ b.published_year # None}
UpdatesPatch == {u \in BookUpdate : u.category_id = None /\ u.author_id = None}

\* payloads that set the author, the title or both
UpdatesLWW ==
    {u \in BookUpdate :
        /\ u.category_id = None /\ u.description = None /\ u.published_year = None
        /\ u.title \in {None, Some("Emma")}}

ValidPng ==
    [content_type |-> "image/png", filename |-> <<"a", ".", "p", "n", "g">>,
     contents |-> [tag |-> "x", len |-> 1024]]

\* an update that supplies nothing
EmptyPatch ==
    [title |-> None, description |-> None, published_year |-> None,
     author_id |-> None, category_id |-> None]

\* one request after the other: every book route, every upload
Next ==
    \E s \in {"s1"} :
        \/ \E book_in \in {b \in CreatesRef : b.author_id = 1} :
              CreateBookCheck(s, book_in)
        \/ CreateBookCommit(s)
        \/ \E id \in BookIds : GetBook(s, id)
        \/ \E id \in BookIds : UpdateBookLoad(s, id, EmptyPatch)
        \/ UpdateBookCommit(s)
        \/ \E id \in BookIds : DeleteBook(s, id)
        \/ \E id \in BookIds, file \in UploadFile, hex \in HexTokens :
              UploadBookCover(s, id, file, hex)
        \/ \E id \in BookIds : GetCover(s, id)
        \/ Close(s)

Spec == Seeded /\ [][Next]_vars

\* book requests in one session, author and category requests in the other
NextRef ==
    \/ \E s \in {"s1"} :
        \/ \E book_in \in CreatesRef : CreateBookCheck(s, book_in)
        \/ CreateBookCommit(s)
        \/ \E id \in BookIds, book_up \in UpdatesRef : UpdateBookLoad(s, id, book_up)
        \/ UpdateBookCommit(s)
        \/ \E id \in BookIds : DeleteBook(s, id)
        \/ Close(s)
    \/ \E s \in {"s2"} :
        \/ CreateAuthor(s)
        \/ \E id \in AuthorIds : DeleteAuthor(s, id)
        \/ CreateCategory(s)
        \/ \E id \in CategoryIds : DeleteCategory(s, id)
        \/ Close(s)

SpecRef == Init /\ [][NextRef]_vars

\* creates and partial updates in one session, uploads and a change of
\* title in the other
NextPatch ==
    \/ \E s \in {"s1"} :
        \/ \E book_in \in CreatesPatch : CreateBookCheck(s, book_in)
        \/ CreateBookCommit(s)
        \/ \E id \in BookIds, book_up \in UpdatesPatch : UpdateBookLoad(s, id, book_up)
        \/ UpdateBookCommit(s)
        \/ Close(s)
    \/ \E s \in {"s2"} :
        \/ \E id \in BookIds : UploadBookCover(s, id, ValidPng, "0a")
        \/ \E id \in BookIds :
              UpdateBookLoad(s, id, [EmptyPatch EXCEPT !.title = Some("Emma")])
        \/ UpdateBookCommit(s)
        \/ Close(s)

SpecPatch == Seeded /\ [][NextPatch]_vars

\* updates of one book in two concurrent sessions
NextLWW ==
    \E s \in Sessions :
        \/ \E id \in BookIds, book_up \in UpdatesLWW : UpdateBookLoad(s, id, book_up)
        \/ UpdateBookCommit(s)
        \/ Close(s)

SpecLWW == SeededBook /\ [][NextLWW]_vars

-----------------------------------------------------------------------------
(* Claims *)

\* the stored value of column c for the supplied value v of a payload
ColumnValue(c, v) ==
    IF c \in {"description", "published_year"} THEN v ELSE Val(v)

\* session s holds the answer `status` of a request `op`
IsDone(s, op, status) ==
    sess[s].pc = "done" /\ sess[s].op = op /\ sess[s].status = status

\* this step is the first of a request `op` in session s
Begins(s, op) ==
    sess[s] = Idle /\ sess'[s].pc # "idle" /\ sess'[s].op = op

\* this step is the commit of a request `op` in session s
Commits(s, op) ==
    sess[s].pc = "commit" /\ sess[s].op = op /\ sess'[s].pc = "done"

\* C1: in every reachable state every stored book's author_id is the id of
\* a stored author and its category_id the id of a stored category.
C1_ReferencesExist ==
    \A b \in DOMAIN books :
        books[b].author_id \in authors /\ books[b].category_id \in categories

\* C2: a create_book whose author_id or category_id names no stored row is
\* answered 400 and the table of books is the same after it as before.
C2_BadReferenceRejected ==
    [][\A s \in Sessions :
          (/\ Begins(s, "create_book")
           /\ (sess'[s].req.book_in.author_id \notin authors
               \/ sess'[s].req.book_in.category_id \notin categories))
          => (/\ sess'[s].pc = "done"
              /\ sess'[s].status = 400
              /\ books' = books)]_vars

\* a create_book was answered 400 for its category alone, with a book stored
C2_Witness ==
    \E s \in Sessions :
        /\ IsDone(s, "create_book", 400)
        /\ sess[s].req.book_in.author_id \in authors
        /\ sess[s].req.book_in.category_id \notin categories
        /\ DOMAIN books # {}

\* C3: the commit of a successful update_book leaves every column the
\* request does not supply (and cover_image) as it was stored before the
\* commit, touches no other book, and the queries before the commit write
\* nothing; so a request that supplies only title leaves author_id,
\* category_id, description and published_year as they were.
C3_UnsetFieldsKept ==
    [][\A s \in Sessions :
          /\ Begins(s, "update_book") => books' = books
          /\ (Commits(s, "update_book") /\ sess'[s].status = 200)
             => LET id == sess[s].req.book_id
                    book_up == sess[s].req.book_up
                IN  /\ id \in DOMAIN books
                    /\ DOMAIN books' = DOMAIN books
                    /\ \A c \in Fields :
                          book_up[c] = None => books'[id][c] = books[id][c]
                    /\ books'[id].cover_image = books[id].cover_image
                    /\ \A b \in DOMAIN books \ {id} : books'[b] = books[b]]_vars

\* an update that supplied only title succeeded on a book that has a
\* description and a year, and the book has the new title, its description
\* and its year
C3_Witness ==
    \E s \in Sessions :
        /\ IsDone(s, "update_book", 200)
        /\ sess[s].req.book_up = [EmptyPatch EXCEPT !.title = Some("Dune")]
        /\ sess[s].req.book_id \in DOMAIN books
        /\ books[sess[s].req.book_id].title = "Dune"
        /\ books[sess[s].req.book_id].description = Some("novel")
        /\ books[sess[s].req.book_id].published_year = Some(1965)

\* C4: an update_book on a stored book that supplies an author_id or a
\* category_id which differs from the stored one and names no stored row is
\* answered 400 and the table of books is the same after it as before; the
\* answered request writes nothing later either.
C4_BadUpdateChangesNothing ==
    [][\A s \in Sessions :
          /\ (/\ Begins(s, "update_book")
              /\ sess'[s].req.book_id \in DOMAIN books
              /\ LET book == books[sess'[s].req.book_id]
                     book_up == sess'[s].req.book_up
                 IN  \/ /\ book_up.author_id # None
                        /\ Val(book_up.author_id) # book.author_id
                        /\ Val(book_up.author_id) \notin authors
                     \/ /\ book_up.category_id # None
                        /\ Val(book_up.category_id) # book.category_id
                        /\ Val(book_up.category_id) \notin categories)
             => (/\ sess'[s].pc = "done"
                 /\ sess'[s].status = 400
                 /\ books' = books)
          /\ (sess[s].pc = "done" /\ sess[s].op = "update_book"
              /\ sess[s].status = 400 /\ sess'[s] # sess[s])
             => (sess'[s] = Idle /\ books' = books)]_vars

\* an update was answered 400 for its category after its title,
\* description, year and an existing new author had been assigned, and the
\* stored book has none of them
C4_Witness ==
    \E s \in Sessions :
        /\ IsDone(s, "update_book", 400)
        /\ sess[s].req.book_id \in DOMAIN books
        /\ LET book == books[sess[s].req.book_id]
               book_up == sess[s].req.book_up
           IN  /\ book_up.title = Some("Emma") /\ book.title = "Dune"
               /\ book_up.description # None /\ book.description = None
               /\ book_up.author_id # None
               /\ Val(book_up.author_id) \in authors
               /\ Val(book_up.author_id) # book.author_id
               /\ book_up.category_id # None
               /\ Val(book_up.category_id) \notin categories
               /\ Val(book_up.category_id) # book.category_id

\* the three extensions, as the claims name them
JpgJpegPng ==
    {<<".", "j", "p", "g">>, <<".", "j", "p", "e", "g">>, <<".", "p", "n", "g">>}

\* name is longer than ext and ends with ext, letter case apart
EndsWith(name, ext) ==
    /\ Len(name) > Len(ext)
    /\ ToLower(SubSeq(name, Len(name) - Len(ext) + 1, Len(name))) = ext

\* the upload's declared type, name and size are the ones the claims allow
AcceptableType(file) == file.content_type \in {"image/jpeg", "image/png"}
AcceptableName(file) == \E ext \in JpgJpegPng : EndsWith(file.filename, ext)
AcceptableSize(file) == file.contents.len <= 2097152

\* C5: an upload to a stored book whose declared type is neither image/jpeg
\* nor image/png, or whose filename does not end in .jpg, .jpeg or .png
\* (letter case apart), or whose content is longer than 2097152 bytes is
\* answered 400 and leaves books and files as they were; an upload of
\* exactly 2097152 bytes with an allowed type and name is answered 200.
C5_RejectedUploadChangesNothing ==
    [][\A s \in Sessions :
          (Begins(s, "upload_book_cover") /\ sess'[s].req.book_id \in DOMAIN books)
          => LET file == sess'[s].req.file
             IN  /\ (~AcceptableType(file) \/ ~AcceptableName(file)
                     \/ file.contents.len > 2097152)
                    => (/\ sess'[s].status = 400
                        /\ books' = books
                        /\ files' = files)
                 /\ (AcceptableType(file) /\ AcceptableName(file)
                     /\ file.contents.len = 2097152)
                    => sess'[s].status = 200]_vars

\* an upload of 2097153 bytes was answered 400 while the sink holds a file
\* of 2097152 bytes and nothing of the rejected upload
C5_Witness ==
    \E s \in Sessions :
        /\ IsDone(s, "upload_book_cover", 400)
        /\ AcceptableType(sess[s].req.file)
        /\ AcceptableName(sess[s].req.file)
        /\ sess[s].req.file.contents.len = 2097153
        /\ \E p \in DOMAIN files : files[p].len = 2097152
        /\ \A p \in DOMAIN files : files[p] # sess[s].req.file.contents

\* C6: an upload to a stored book with an allowed type, an allowed
\* extension and at most 2097152 bytes is answered 200; that book's
\* cover_image is then /static/covers/book_{id}_{hex}{ext} with its own id
\* and the lower-cased extension of the uploaded name, the sink holds the
\* uploaded bytes under app/static/covers/book_{id}_{hex}{ext}, the book's
\* other columns and every other book are as they were.
C6_UploadStoresCover ==
    [][\A s \in Sessions :
          (/\ Begins(s, "upload_book_cover")
           /\ sess'[s].req.book_id \in DOMAIN books
           /\ AcceptableType(sess'[s].req.file)
           /\ AcceptableName(sess'[s].req.file)
           /\ AcceptableSize(sess'[s].req.file))
          => LET id == sess'[s].req.book_id
                 file == sess'[s].req.file
                 ext == CHOOSE e \in JpgJpegPng : EndsWith(file.filename, e)
             IN  /\ sess'[s].status = 200
                 /\ DOMAIN books' = DOMAIN books
                 /\ \E hex \in HexTokens :
                       LET name == [prefix |-> "book_", book_id |-> id,
                                    hex |-> hex, ext |-> ext]
                           url == [dir |-> "/static/covers/", filename |-> name]
                           path == [dir |-> "app/static/covers", filename |-> name]
                       IN  /\ books'[id] =
                                [books[id] EXCEPT !.cover_image = Some(url)]
                           /\ sess'[s].body = Some([cover_image |-> url])
                           /\ path \in DOMAIN files'
                           /\ files'[path] = file.contents
                           /\ \A p \in DOMAIN files \ {path} :
                                 p \in DOMAIN files' /\ files'[p] = files[p]
                 /\ \A b \in DOMAIN books \ {id} : books'[b] = books[b]]_vars

\* an upload named a.JPG was answered 200 for book 2, whose cover_image
\* ends in .jpg, while book 1 has a cover of its own
C6_Witness ==
    \E s \in Sessions :
        /\ IsDone(s, "upload_book_cover", 200)
        /\ sess[s].req.book_id = 2
        /\ sess[s].req.file.filename = <<"a", ".", "J", "P", "G">>
        /\ {1, 2} \subseteq DOMAIN books
        /\ books[2].cover_image = Some(Val(sess[s].body).cover_image)
        /\ Val(books[2].cover_image).filename.ext = <<".", "j", "p", "g">>
        /\ Val(books[2].cover_image).filename.book_id = 2
        /\ books[1].cover_image # None
        /\ Val(books[1].cover_image).filename.book_id = 1

\* C7: every stored cover_image is served by the application: a GET of it
\* is answered 200 with the bytes the sink holds under that filename.
C7_CoverIsServed ==
    \A b \in DOMAIN books :
        books[b].cover_image # None
        => LET url == Val(books[b].cover_image)
           IN  /\ StaticGet(url).status = 200
               /\ [dir |-> "app/static/covers", filename |-> url.filename]
                     \in DOMAIN files
               /\ StaticGet(url).body =
                     Some(files[[dir |-> "app/static/covers",
                                 filename |-> url.filename]])

\* C8: the book a create_book stores has no cover_image, no step of an
\* update_book changes the cover_image of any book, and a step that changes
\* the cover_image of a stored book is an upload to that book.
C8_CoverOnlyByUpload ==
    [][\A s \in Sessions :
          /\ (Commits(s, "create_book") /\ sess'[s].status = 201)
             => LET id == Val(sess'[s].body).id
                IN  /\ id \notin DOMAIN books
                    /\ id \in DOMAIN books'
                    /\ books'[id].cover_image = None
          /\ (Begins(s, "update_book") \/ Commits(s, "update_book"))
             => \A b \in DOMAIN books :
                   b \in DOMAIN books'
                   /\ books'[b].cover_image = books[b].cover_image
          /\ \A b \in DOMAIN books \cap DOMAIN books' :
                books'[b].cover_image # books[b].cover_image
                => \E t \in Sessions :
                      /\ Begins(t, "upload_book_cover")
                      /\ sess'[t].req.book_id = b]_vars

\* an update that supplied title, description and year succeeded on a book
\* that has a cover, after an upload that is still open was answered
C8_Witness ==
    \E s, t \in Sessions :
        /\ IsDone(s, "update_book", 200)
        /\ sess[s].req.book_up.title # None
        /\ sess[s].req.book_up.description # None
        /\ sess[s].req.book_up.published_year # None
        /\ IsDone(t, "upload_book_cover", 200)
        /\ sess[t].req.book_id = sess[s].req.book_id
        /\ sess[s].req.book_id \in DOMAIN books
        /\ books[sess[s].req.book_id].cover_image # None
        /\ books[sess[s].req.book_id].description # None

\* C9: a delete of an id that is not stored is answered 404 and leaves the
\* books as they were; a delete of a stored id is answered 204 and removes
\* that book and no other; a get, update, delete or upload on an id that is
\* not stored is answered 404; an id becomes stored only by the commit of a
\* create_book.
C9_DeleteRemovesExactlyThatBook ==
    [][\A s \in Sessions :
          /\ Begins(s, "delete_book")
             => LET id == sess'[s].req.book_id
                IN  IF id \notin DOMAIN books
                    THEN sess'[s].status = 404 /\ books' = books
                    ELSE /\ sess'[s].status = 204
                         /\ DOMAIN books' = DOMAIN books \ {id}
                         /\ \A b \in DOMAIN books' : books'[b] = books[b]
          /\ \A op \in {"get_book", "update_book", "delete_book",
                        "upload_book_cover"} :
                (Begins(s, op) /\ sess'[s].req.book_id \notin DOMAIN books)
                => (/\ sess'[s].pc = "done"
                    /\ sess'[s].status = 404
                    /\ books' = books
                    /\ files' = files)
          /\ DOMAIN books' \ DOMAIN books # {}
             => \E t \in Sessions : Commits(t, "create_book")]_vars

\* a delete of book 1 was answered 204, book 1 is gone, and book 2 is
\* still stored
C9_Witness ==
    \E s \in Sessions :
        /\ IsDone(s, "delete_book", 204)
        /\ sess[s].req.book_id = 1
        /\ DOMAIN books = {2}

\* C10: the commit of an update_book, while the other session holds the
\* answer 200 of an update_book of the same book, is answered 200, and every
\* column both requests supplied then has the value of the request that
\* commits now.
C10_LastWriteWins ==
    [][\A s, t \in Sessions :
          (/\ s # t
           /\ Commits(s, "update_book")
           /\ IsDone(t, "update_book", 200)
           /\ sess[t].req.book_id = sess[s].req.book_id)
          => LET id == sess[s].req.book_id
             IN  /\ sess'[s].status = 200
                 /\ \A c \in Fields :
                       (sess[s].req.book_up[c] # None
                        /\ sess[t].req.book_up[c] # None)
                       => books'[id][c] = ColumnValue(c, sess[s].req.book_up[c])]_vars

====
